---- MODULE Spec2Model ----
(***************************************************************************)
(* PI Grant Statement Checker (src/finance.py): one run of the script over *)
(* an uploaded workbook.  Money is counted in thousandths of the currency  *)
(* unit (10 = one cent), so that rounding to 2 decimals is a real          *)
(* operation; a missing cell (NaN / NaT / None) is the empty sequence and  *)
(* a present value v is <<v>>.  A timestamp is a day number; a date cell   *)
(* of the workbook is a date-typed cell or the text "dd.mm.yyyy".          *)
(***************************************************************************)
EXTENDS Integers, Sequences, FiniteSets

VARIABLES
    pc,             \* the section of the script the run is about to execute
    columns,        \* column names of the selected sheet
    sheet,          \* rows of the selected sheet, as read by pd.read_excel
    grant_period,   \* cell B4, already cut at its " to " delimiters
    budget_total,   \* cell I8
    df,             \* ledger rows kept after the G/L filter
    res_out,        \* 1: Pending Invoices and Errors
    dup,            \* 2: Duplicated Invoice Charges (index labels)
    amb_flag,       \* 3: Ambiguous Invoices (index labels)
    all_invoices,   \* 4: All Invoices (index labels)
    shown,          \* the outputs handed to the page so far
    period,         \* <<start_date, end_date>> once parsed, else None
    timeline,       \* 5: day -> the four series of the budget timeline
    summary,        \* the summary scalars
    error           \* the exception that ended the run, or "none"

vars == <<pc, columns, sheet, grant_period, budget_total, df, res_out, dup,
          amb_flag, all_invoices, shown, period, timeline, summary, error>>

(***************************************************************************)
(* Bounds of the model.                                                    *)
(***************************************************************************)
MaxRows == 3
MaxRowsB == 2
MaxDay == 3

None == <<>>
Some(v) == <<v>>
IsNull(c) == c = None
Val(c) == c[1]

Max(S) == CHOOSE x \in S : \A y \in S : y <= x

RECURSIVE SumF(_, _)
SumF(f, S) ==
    IF S = {} THEN 0
    ELSE LET x == CHOOSE y \in S : TRUE
         IN  f[x] + SumF(f, S \ {x})

(***************************************************************************)
(* Series.round(2): to the nearest cent, a tie going to the even cent.     *)
(***************************************************************************)
Round2(x) ==
    LET q == x \div 10
        r == x % 10
    IN  IF r < 5 THEN q * 10
        ELSE IF r > 5 THEN (q + 1) * 10
        ELSE IF q % 2 = 0 THEN q * 10 ELSE (q + 1) * 10

(***************************************************************************)
(* The calendar: day 1 is 30.01., day 2 is 31.01., day 3 is 01.02. and so  *)
(* on through February.  A date cell holds day and month and its type;     *)
(* pd.to_datetime and strptime turn it into the day number.                *)
(***************************************************************************)
DateCell(ty, n) ==
    IF n <= 2 THEN [type |-> ty, dd |-> 29 + n, mm |-> 1]
    ELSE [type |-> ty, dd |-> n - 2, mm |-> 2]

to_datetime(c) == IF c.mm = 1 THEN c.dd - 29 ELSE c.dd + 2

\* The order max() sees on the raw column: timestamps by time, text by
\* characters, that is by the day of the month first.
raw_leq(a, b) ==
    IF a.type = "text"
    THEN a.dd < b.dd \/ (a.dd = b.dd /\ a.mm <= b.mm)
    ELSE to_datetime(a) <= to_datetime(b)

(***************************************************************************)
(* Rows and frames.  A frame derived from df keeps df's index labels, so   *)
(* a derived frame is the set of labels of the rows it keeps.              *)
(***************************************************************************)
AllColumns == {"G/L", "Text", "Open Items", "Invoice", "Posting Date", "Ref Document"}

Row(gl, d, t, o, i) ==
    [GL |-> gl, PostingDate |-> d, Text |-> t, OpenItems |-> o, Invoice |-> i]

reservations(d) ==
    {i \in DOMAIN d : ~IsNull(d[i].OpenItems) /\ Val(d[i].OpenItems) # 0}

invoices(d) ==
    {i \in DOMAIN d : ~IsNull(d[i].Invoice) /\ Val(d[i].Invoice) # 0}

InvAmtRnd(d, i) == Round2(Val(d[i].Invoice))

(***************************************************************************)
(* Reservation summary and status (lines 50-72).                           *)
(***************************************************************************)
reservation_summary(d) ==
    LET texts == {d[i].Text : i \in reservations(d)}
        net(t) == SumF([i \in reservations(d) |-> Val(d[i].OpenItems)],
                       {i \in reservations(d) : d[i].Text = t})
    IN  {[Text |-> t, Net |-> net(t)] : t \in texts}

res_filter(summ) == {g \in summ : g.Net # 0}

invoice_counts(d, amt) == Cardinality({i \in invoices(d) : InvAmtRnd(d, i) = amt})

amt_counts(groups, amt) == Cardinality({g \in groups : Round2(g.Net) = amt})

status_no_rule1(net, ic, rc) ==
    IF ic = 0 THEN "Uninvoiced"
    ELSE IF ic > rc THEN "Multiple invoices"
    ELSE IF ic = 1 /\ rc = 1 THEN "Invoiced"
    ELSE IF ic = 1 /\ rc > 1 THEN "Ambiguous reservation codes"
    ELSE "Check"

status(net, ic, rc) ==
    IF net # 0 /\ ic > 0 THEN "Invoiced without Balancing Open Items"
    ELSE IF ic = 0 THEN "Uninvoiced"
    ELSE IF ic > rc THEN "Multiple invoices"
    ELSE IF ic = 1 /\ rc = 1 THEN "Invoiced"
    ELSE IF ic = 1 /\ rc > 1 THEN "Ambiguous reservation codes"
    ELSE "Check"

classify(d) ==
    LET groups == res_filter(reservation_summary(d))
    IN  {[Text |-> g.Text,
          Net |-> g.Net,
          InvAmtRnd |-> Round2(g.Net),
          InvoiceCount |-> invoice_counts(d, Round2(g.Net)),
          ResCodesCount |-> amt_counts(groups, Round2(g.Net)),
          Status |-> status(g.Net, invoice_counts(d, Round2(g.Net)),
                            amt_counts(groups, Round2(g.Net)))] : g \in groups}

(***************************************************************************)
(* 2: Duplicated Invoice Charges (line 80).  duplicated(keep=False) marks  *)
(* every row whose (InvAmtRnd, Text) key occurs more than once.            *)
(***************************************************************************)
dup_key_amount_only(d, i) == <<InvAmtRnd(d, i)>>

dup_key(d, i) == <<InvAmtRnd(d, i), d[i].Text>>

duplicated(d) ==
    {i \in invoices(d) :
        Cardinality({j \in invoices(d) : dup_key(d, j) = dup_key(d, i)}) > 1}

(***************************************************************************)
(* 3: Ambiguous Invoices (lines 85-91).  A Text is a sequence of           *)
(* characters; re.match(r'^R\d+', c) asks for an "R" and then a digit.     *)
(***************************************************************************)
Digits == {"0", "1", "2", "3", "4", "5", "6", "7", "8", "9"}

extract_R(codes) ==
    {c \in codes : Len(c) >= 2 /\ c[1] = "R" /\ c[2] \in Digits}

pos_map_by_group(d, amt) ==
    {g.Text : g \in {h \in reservation_summary(d) : h.Net > 0 /\ Round2(h.Net) = amt}}

pos_map(d, amt) ==
    {d[i].Text : i \in {j \in reservations(d) :
                          /\ Val(d[j].OpenItems) > 0
                          /\ Round2(Val(d[j].OpenItems)) = amt}}

PossibleRCodes(d, i) == extract_R(pos_map(d, InvAmtRnd(d, i)))

ambiguous(d) == {i \in invoices(d) : Cardinality(PossibleRCodes(d, i)) > 1}

(***************************************************************************)
(* 5: Remaining Budget over Time.  The guard and the period (99-107).      *)
(* A token of the period is text in day.month.year form ("dmy") naming a   *)
(* day, or text in some other form, on which strptime raises.              *)
(***************************************************************************)
Token(f, n) == [fmt |-> f, date |-> DateCell("text", n)]

Truthy(c) == ~IsNull(c) /\ Val(c) # 0

parse_period_first_two(toks) ==
    IF Len(toks) < 2 THEN None
    ELSE IF \E k \in 1..2 : toks[k].fmt # "dmy" THEN None
    ELSE Some(<<to_datetime(toks[1].date), to_datetime(toks[2].date)>>)

parse_period(toks) ==
    IF Len(toks) # 2 THEN None
    ELSE IF \E k \in 1..2 : toks[k].fmt # "dmy" THEN None
    ELSE Some(<<to_datetime(toks[1].date), to_datetime(toks[2].date)>>)

(***************************************************************************)
(* The two cumulative series (108-121) and the daily calendar (123-130).   *)
(* A groupby drops the rows whose key is NaT.                              *)
(***************************************************************************)
spend(d) ==
    LET dated == {i \in invoices(d) : ~IsNull(d[i].PostingDate)}
        Date(i) == to_datetime(Val(d[i].PostingDate))
        dates == {Date(i) : i \in dated}
        amount == [i \in dated |-> Val(d[i].Invoice)]
    IN  [day \in dates |->
            SumF(amount, {i \in dated : Date(i) <= day})]

uninv(table) == {g \in table : g.Status = "Uninvoiced"}

latest(d, t) ==
    LET cells == {Val(d[i].PostingDate) :
                     i \in {j \in reservations(d) :
                               d[j].Text = t /\ ~IsNull(d[j].PostingDate)}}
    IN  IF cells = {} THEN None
        ELSE Some(to_datetime(CHOOSE x \in cells : \A y \in cells : raw_leq(y, x)))

events(d, table) ==
    {[Text |-> g.Text, Amount |-> g.Net, Date |-> latest(d, g.Text)] :
        g \in {h \in uninv(table) :
                  \E i \in reservations(d) : d[i].Text = h.Text}}

obligations(d, table) ==
    LET ev == {e \in events(d, table) : ~IsNull(e.Date)}
        dates == {Val(e.Date) : e \in ev}
        amount == [e \in ev |-> e.Amount]
    IN  [day \in dates |-> SumF(amount, {e \in ev : Val(e.Date) <= day})]

idx_end_exclusive(start, end) == start..(end - 1)

idx(start, end) == start..end

reindex_no_fill(s, days) ==
    [day \in days |-> IF day \in DOMAIN s THEN s[day] ELSE 0]

reindex_ffill(s, days) ==
    [day \in days |->
        LET prior == {x \in DOMAIN s : x <= day}
        IN  IF prior = {} THEN 0 ELSE s[Max(prior)]]

build_timeline(d, table, budget, start, end) ==
    LET spend_df == reindex_ffill(spend(d), idx(start, end))
        obligations_df == reindex_ffill(obligations(d, table), idx(start, end))
    IN  [day \in idx(start, end) |->
            [spend |-> spend_df[day],
             obligations |-> obligations_df[day],
             remaining |-> budget - spend_df[day],
             remaining_alloc |-> budget - (spend_df[day] + obligations_df[day])]]

(***************************************************************************)
(* The summary scalars (132-137).  A percentage is kept as the fraction    *)
(* <<numerator, denominator>>, or None where the code leaves it None.      *)
(***************************************************************************)
days_left(end, today) == IF end - today > 0 THEN end - today ELSE 0

total_days(start, end) == end - start

pct_time_left(start, end, today) ==
    IF total_days(start, end) # 0
    THEN Some(<<days_left(end, today) * 100, total_days(start, end)>>)
    ELSE None

pct_of_budget(amount, budget) ==
    IF budget # 0 THEN Some(<<amount * 100, budget>>) ELSE None

(***************************************************************************)
(* The workbooks the model uploads.  No computation of the script reads    *)
(* the order of the rows (group-bys, value counts and the amount map are   *)
(* order-free, and a table names its rows by index label), so one ledger   *)
(* stands for all its permutations: rows are drawn in a fixed order.       *)
(***************************************************************************)
R1 == <<"R", "1">>
R2 == <<"R", "2">>
AR1 == <<"A", "R", "1">>
Supplies == <<"S">>

RECURSIVE SetToSeq(_)
SetToSeq(S) ==
    IF S = {} THEN <<>>
    ELSE LET x == CHOOSE y \in S : TRUE
         IN  <<x>> \o SetToSeq(S \ {x})

RECURSIVE NonDecreasing(_, _)
NonDecreasing(n, len) ==
    IF len = 0 THEN {<<>>}
    ELSE LET shorter == NonDecreasing(n, len - 1)
         IN  shorter \cup
             UNION {{Append(s, k) : k \in (IF s = <<>> THEN 1 ELSE s[Len(s)])..n} :
                       s \in {p \in shorter : Len(p) = len - 1}}

Ledgers(rows, len) ==
    LET rs == SetToSeq(rows)
    IN  {[k \in 1..Len(s) |-> rs[s[k]]] : s \in NonDecreasing(Len(rs), len)}

Days == 1..MaxDay

\* Reconciliation workbooks: every text, sub-cent amounts, a single date.
ReconRows ==
    {Row(Some(1), Some(DateCell("datetime", 1)), t, o, i) :
        t \in {R1, R2, AR1},
        o \in {None, Some(-10), Some(2), Some(10)},
        i \in {None, Some(10), Some(12)}}

\* Budget workbooks: dated reservation rows and dated invoice rows, the
\* Posting Date column being date-typed or text throughout.
DateCells(ty) == {None} \cup {Some(DateCell(ty, n)) : n \in Days}

BudgetRows(ty) ==
    {Row(Some(1), d, t, Some(o), None) :
        d \in DateCells(ty), t \in {R1, R2}, o \in {10, -10}}
    \cup
    {Row(Some(1), d, Supplies, None, Some(i)) :
        d \in DateCells(ty), i \in {20, -10}}

ValidPeriods == {<<Token("dmy", a), Token("dmy", b)>> : a, b \in Days}

BadPeriods ==
    { <<Token("dmy", 1)>>,
      <<Token("dmy", 1), Token("other", 2)>>,
      <<Token("dmy", 1), Token("dmy", 2), Token("dmy", 3)>> }

TypeOK ==
    /\ pc \in {"load", "classify", "dup", "amb", "all", "budget", "timeline",
               "report", "done", "stopped", "crashed"}
    /\ error \in {"none", "MissingColumn", "IndexError", "TypeError"}

InitOutputs ==
    /\ pc = "load"
    /\ df = <<>>
    /\ res_out = {}
    /\ dup = {}
    /\ amb_flag = {}
    /\ all_invoices = {}
    /\ shown = {}
    /\ period = None
    /\ timeline = <<>>
    /\ summary = None
    /\ error = "none"

\* Reconciliation workbooks carry no budget cell, so their run ends after the
\* four tables; a few one-row workbooks carry one, or lack the G/L column.
Init ==
    /\ \/ /\ columns = AllColumns
          /\ sheet \in Ledgers(ReconRows, MaxRows)
          /\ grant_period = None
          /\ budget_total = None
       \/ /\ columns \in {AllColumns, AllColumns \ {"G/L"}}
          /\ sheet \in Ledgers(ReconRows, 1)
          /\ grant_period = Some(<<Token("dmy", 1), Token("dmy", 2)>>)
          /\ budget_total = Some(40)
    /\ InitOutputs

InitBudget ==
    /\ columns = AllColumns
    /\ \E ty \in {"datetime", "text"} : sheet \in Ledgers(BudgetRows(ty), MaxRowsB)
    /\ \/ /\ budget_total = Some(40)
          /\ grant_period \in {None} \cup {Some(p) : p \in ValidPeriods \cup BadPeriods}
       \/ /\ budget_total \in {None, Some(0)}
          /\ grant_period = Some(<<Token("dmy", 1), Token("dmy", 2)>>)
    /\ InitOutputs

(***************************************************************************)
(* Lines 36-47: read the sheet; stop when it has no G/L column; keep the   *)
(* rows whose G/L is present.                                              *)
(***************************************************************************)
LoadData ==
    /\ pc = "load"
    /\ IF "G/L" \notin columns
       THEN /\ error' = "MissingColumn"
            /\ pc' = "stopped"
            /\ df' = df
       ELSE /\ df' = SelectSeq(sheet, LAMBDA r : ~IsNull(r.GL))
            /\ pc' = "classify"
            /\ error' = error
    /\ UNCHANGED <<columns, sheet, grant_period, budget_total, res_out, dup,
                   amb_flag, all_invoices, shown, period, timeline, summary>>

\* Lines 49-76: the classified reservation table.
Classify ==
    /\ pc = "classify"
    /\ res_out' = classify(df)
    /\ shown' = shown \cup {"Pending Invoices and Errors"}
    /\ pc' = "dup"
    /\ UNCHANGED <<columns, sheet, grant_period, budget_total, df, dup,
                   amb_flag, all_invoices, period, timeline, summary, error>>

\* Lines 78-81.
Duplicates ==
    /\ pc = "dup"
    /\ dup' = duplicated(df)
    /\ shown' = shown \cup {"Duplicated Invoice Charges"}
    /\ pc' = "amb"
    /\ UNCHANGED <<columns, sheet, grant_period, budget_total, df, res_out,
                   amb_flag, all_invoices, period, timeline, summary, error>>

\* Lines 83-92.
Ambiguous ==
    /\ pc = "amb"
    /\ amb_flag' = ambiguous(df)
    /\ shown' = shown \cup {"Ambiguous Invoices"}
    /\ pc' = "all"
    /\ UNCHANGED <<columns, sheet, grant_period, budget_total, df, res_out,
                   dup, all_invoices, period, timeline, summary, error>>

\* Lines 94-96.
AllInvoices ==
    /\ pc = "all"
    /\ all_invoices' = invoices(df)
    /\ shown' = shown \cup {"All Invoices"}
    /\ pc' = "budget"
    /\ UNCHANGED <<columns, sheet, grant_period, budget_total, df, res_out,
                   dup, amb_flag, period, timeline, summary, error>>

(***************************************************************************)
(* Lines 99-107: the section runs when budget_total and grant_period are   *)
(* truthy and the period parses; a parse error is swallowed.               *)
(***************************************************************************)
ParsePeriod ==
    /\ pc = "budget"
    /\ IF Truthy(budget_total) /\ ~IsNull(grant_period)
       THEN /\ period' = parse_period(Val(grant_period))
            /\ pc' = IF IsNull(period') THEN "done" ELSE "timeline"
       ELSE /\ period' = period
            /\ pc' = "done"
    /\ UNCHANGED <<columns, sheet, grant_period, budget_total, df, res_out,
                   dup, amb_flag, all_invoices, shown, timeline, summary, error>>

(***************************************************************************)
(* Lines 108-137: the series, the calendar, and the scalars up to          *)
(* pct_used.  spend_df.iloc[-1] raises IndexError on an empty calendar.    *)
(***************************************************************************)
BuildTimeline ==
    /\ pc = "timeline"
    /\ \E today \in Days :
        LET start == Val(period)[1]
            end == Val(period)[2]
            budget == Val(budget_total)
            tl == build_timeline(df, res_out, budget, start, end)
        IN  /\ timeline' = tl
            /\ IF idx(start, end) = {}
               THEN /\ error' = "IndexError"
                    /\ pc' = "crashed"
                    /\ summary' = summary
               ELSE /\ summary' =
                        Some([days_left |-> days_left(end, today),
                              pct_time_left |-> pct_time_left(start, end, today),
                              total_used |-> tl[Max(DOMAIN tl)].spend,
                              pct_used |-> pct_of_budget(tl[Max(DOMAIN tl)].spend,
                                                         budget),
                              total_alloc_util |-> None,
                              pct_alloc_util |-> None])
                    /\ pc' = "report"
                    /\ error' = error
    /\ UNCHANGED <<columns, sheet, grant_period, budget_total, df, res_out,
                   dup, amb_flag, all_invoices, shown, period>>

(***************************************************************************)
(* Lines 138-150: the summary lines and the chart.  Formatting None with   *)
(* :.1f raises TypeError.                                                  *)
(***************************************************************************)
Report ==
    /\ pc = "report"
    /\ IF IsNull(Val(summary).pct_time_left)
       THEN /\ error' = "TypeError"
            /\ pc' = "crashed"
            /\ shown' = shown
            /\ summary' = summary
       ELSE /\ LET last == timeline[Max(DOMAIN timeline)]
                   alloc == Val(summary).total_used + last.obligations
               IN  summary' =
                       Some([Val(summary) EXCEPT
                               !.total_alloc_util = Some(alloc),
                               !.pct_alloc_util =
                                   pct_of_budget(alloc, Val(budget_total))])
            /\ shown' = shown \cup {"Summary", "Budget Usage over Time"}
            /\ pc' = "done"
            /\ error' = error
    /\ UNCHANGED <<columns, sheet, grant_period, budget_total, df, res_out,
                   dup, amb_flag, all_invoices, period, timeline>>

Next ==
    \/ LoadData
    \/ Classify
    \/ Duplicates
    \/ Ambiguous
    \/ AllInvoices
    \/ ParsePeriod
    \/ BuildTimeline
    \/ Report

Spec == Init /\ [][Next]_vars

SpecBudget == InitBudget /\ [][Next]_vars

(***************************************************************************)
(* Vocabulary of the properties, stated over the ledger df itself.         *)
(***************************************************************************)
IsReservationRow(i) == df[i].OpenItems # None /\ df[i].OpenItems # Some(0)

IsInvoiceRow(i) == df[i].Invoice # None /\ df[i].Invoice # Some(0)

ReservationTexts == {df[i].Text : i \in {j \in DOMAIN df : IsReservationRow(j)}}

RowsOf(t) == {i \in DOMAIN df : IsReservationRow(i) /\ df[i].Text = t}

NetOf(t) == SumF([i \in DOMAIN df |-> df[i].OpenItems[1]], RowsOf(t))

InvoicesAt(amt) ==
    Cardinality({i \in DOMAIN df : IsInvoiceRow(i) /\ Round2(df[i].Invoice[1]) = amt})

IsRCode(t) == Len(t) >= 2 /\ t[1] = "R" /\ t[2] \in Digits

Listed(t) == \E g \in res_out : g.Text = t

ClassifiedShown == "Pending Invoices and Errors" \in shown

TimelineBuilt == summary # None

GrantStart == to_datetime(grant_period[1][1].date)

GrantEnd == to_datetime(grant_period[1][2].date)

\* C1: a reservation group whose net amount rounds to zero at 2 decimals is
\* never in the classified reservation output, also when the net amount is
\* non-zero but below half a cent.
C1_RoundsToZeroNeverListed ==
    ClassifiedShown =>
        \A t \in ReservationTexts : Round2(NetOf(t)) = 0 => ~Listed(t)

\* C2: a classified group matched by exactly one invoice, and alone at its
\* rounded amount, has status 'Invoiced'.
C2_OneToOneIsInvoiced ==
    ClassifiedShown =>
        \A g \in res_out :
            g.InvoiceCount = 1 /\ g.ResCodesCount = 1 => g.Status = "Invoiced"

GroupCandidates(amt) ==
    {t \in ReservationTexts : NetOf(t) > 0 /\ Round2(NetOf(t)) = amt /\ IsRCode(t)}

RowCandidates(amt) ==
    {t \in ReservationTexts :
        /\ IsRCode(t)
        /\ \E i \in RowsOf(t) :
            df[i].OpenItems[1] > 0 /\ Round2(df[i].OpenItems[1]) = amt}

\* C4 as claimed: an invoice is flagged ambiguous exactly when more than one
\* reservation group with a positive net amount of the invoice's rounded
\* amount has an R-code Text.
C4_AmbiguousByGroupNet ==
    "Ambiguous Invoices" \in shown =>
        \A i \in DOMAIN df :
            IsInvoiceRow(i) =>
                (i \in amb_flag <=>
                    Cardinality(GroupCandidates(Round2(df[i].Invoice[1]))) > 1)

\* C4 amended: an invoice is flagged ambiguous exactly when more than one
\* R-code Text has a reservation row whose own positive Open Items value
\* rounds to the invoice's rounded amount.
C4_AmbiguousByRow ==
    "Ambiguous Invoices" \in shown =>
        /\ \A i \in amb_flag : IsInvoiceRow(i)
        /\ \A i \in DOMAIN df :
            IsInvoiceRow(i) =>
                (i \in amb_flag <=>
                    Cardinality(RowCandidates(Round2(df[i].Invoice[1]))) > 1)

\* C4 witness: a flagged invoice for which the group nets give at most one
\* candidate.
C4_Witness ==
    /\ "Ambiguous Invoices" \in shown
    /\ \E i \in amb_flag :
        Cardinality(GroupCandidates(Round2(df[i].Invoice[1]))) <= 1

\* C10: a classified group is 'Invoiced without Balancing Open Items' exactly
\* when an invoice has its rounded amount and 'Uninvoiced' exactly when none
\* has; no other status is assigned.
C10_OnlyTwoStatuses ==
    ClassifiedShown =>
        \A g \in res_out :
            /\ g.Status \in {"Invoiced without Balancing Open Items", "Uninvoiced"}
            /\ g.Status = "Uninvoiced" <=> InvoicesAt(Round2(NetOf(g.Text))) = 0

\* C10 witness: one invoice at an amount that two groups share, beside a
\* group that no invoice matches.
C10_Witness ==
    /\ ClassifiedShown
    /\ \E g \in res_out :
        /\ g.InvoiceCount = 1
        /\ g.ResCodesCount > 1
        /\ g.Status = "Invoiced without Balancing Open Items"
    /\ \E g \in res_out : g.InvoiceCount = 0 /\ g.Status = "Uninvoiced"

(***************************************************************************)
(* Vocabulary of the budget properties.                                    *)
(***************************************************************************)
UninvoicedTexts ==
    {t \in ReservationTexts : NetOf(t) # 0 /\ InvoicesAt(Round2(NetOf(t))) = 0}

DatesOf(t) ==
    {to_datetime(df[i].PostingDate[1]) :
        i \in {j \in RowsOf(t) : df[j].PostingDate # None}}

DatedInvoices == {i \in DOMAIN df : IsInvoiceRow(i) /\ df[i].PostingDate # None}

InvoiceDates == {to_datetime(df[i].PostingDate[1]) : i \in DatedInvoices}

SpendNonDecreasing ==
    \A d1, d2 \in DOMAIN timeline :
        d1 < d2 => timeline[d1].spend <= timeline[d2].spend

ObligationsNonDecreasing ==
    \A d1, d2 \in DOMAIN timeline :
        d1 < d2 => timeline[d1].obligations <= timeline[d2].obligations

PeriodUnparseable ==
    /\ grant_period # None
    /\ \/ Len(grant_period[1]) # 2
       \/ \E k \in DOMAIN grant_period[1] : grant_period[1][k].fmt # "dmy"

\* C5 as claimed: over the days of the grant period both cumulative series
\* are non-decreasing, whatever the signs of the amounts.
C5_SeriesNonDecreasing ==
    TimelineBuilt => SpendNonDecreasing /\ ObligationsNonDecreasing

\* C5 amended: cumulative spend is non-decreasing when no invoice amount is
\* negative, and cumulative obligations are non-decreasing when no
\* Uninvoiced group has a negative net amount.
C5_NonDecreasingWhenNonNegative ==
    TimelineBuilt =>
        /\ (\A i \in DOMAIN df : IsInvoiceRow(i) => df[i].Invoice[1] >= 0)
               => SpendNonDecreasing
        /\ (\A t \in UninvoicedTexts : NetOf(t) >= 0)
               => ObligationsNonDecreasing

\* C5 witness: no negative invoice, no negative Uninvoiced net, and both
\* series rise inside the grant period.
C5_Witness ==
    /\ TimelineBuilt
    /\ \A i \in DOMAIN df : IsInvoiceRow(i) => df[i].Invoice[1] >= 0
    /\ \A t \in UninvoicedTexts : NetOf(t) >= 0
    /\ \E d1, d2 \in DOMAIN timeline :
        /\ d1 < d2
        /\ timeline[d1].spend < timeline[d2].spend
        /\ timeline[d1].obligations < timeline[d2].obligations

\* C6: when the projection runs on a grant period of zero days, the
\* percentage of time left is undefined and the run ends without an error,
\* the report of the summary included.
C6_ZeroDaysRunCompletes ==
    ~IsNull(period) /\ GrantStart = GrantEnd =>
        /\ error = "none"
        /\ pc # "crashed"
        /\ TimelineBuilt => summary[1].pct_time_left = None

C8_ObligationsAtLatestDate ==
    TimelineBuilt =>
        \A day \in DOMAIN timeline :
            timeline[day].obligations =
                SumF([t \in UninvoicedTexts |-> NetOf(t)],
                     {t \in UninvoicedTexts :
                         DatesOf(t) # {} /\ Max(DatesOf(t)) <= day})

\* C9: the timeline has an entry for every day from grant start to grant
\* end; cumulative spend is equal on two days with no invoice posted after
\* the first up to the second, and zero before the first invoice date.
C9_DailyForwardFill ==
    TimelineBuilt =>
        /\ DOMAIN timeline = GrantStart..GrantEnd
        /\ \A d1, d2 \in DOMAIN timeline :
            (d1 < d2 /\ \A x \in InvoiceDates : ~(d1 < x /\ x <= d2))
                => timeline[d1].spend = timeline[d2].spend
        /\ \A day \in DOMAIN timeline :
            (\A x \in InvoiceDates : day < x) => timeline[day].spend = 0

\* C9 witness: a timeline day before the first invoice date, and a later
\* day that carries a non-zero total forward.
C9_Witness ==
    /\ TimelineBuilt
    /\ InvoiceDates # {}
    /\ \E day \in DOMAIN timeline : \A x \in InvoiceDates : day < x
    /\ \E d1, d2 \in DOMAIN timeline :
        /\ d1 < d2
        /\ \A x \in InvoiceDates : ~(d1 < x /\ x <= d2)
        /\ timeline[d1].spend # 0
====
